---- MODULE Spec2Model ----
(***************************************************************************)
(* Model of the pre-commit checkers of uxtechie/pre-commit-stack:          *)
(*   scripts/check_sql_injection.py   (textual rules, AST visitor,         *)
(*                                     check_python_file, main)            *)
(*   scripts/validate_odoo_structure.py (validate_manifest,                *)
(*                                     validate_odoo_structure, main)      *)
(*                                                                         *)
(* Text (file content, paths, identifiers) is a sequence of one-character *)
(* strings.  A syntax tree is a record [type, attr, lineno, col_offset,    *)
(* fields]; fields lists the child nodes of every node-valued field in the *)
(* order of the node class's _fields, which is the order                   *)
(* ast.NodeVisitor.generic_visit walks them.                               *)
(***************************************************************************)
EXTENDS Integers, Sequences, FiniteSets, TLC

VARIABLES
    pc,         \* position of the running script
    argv,       \* check_sql_injection main: sys.argv[1:], each path with the file found there
    i,          \* check_sql_injection main: index of the next path of the for loop
    all_safe,   \* check_sql_injection main: the aggregate flag
    stdout,     \* lines printed so far
    reads,      \* paths handed to check_python_file so far (its file reads), in order
    exit_code,  \* the process exit status, -1 while running
    file,       \* check_python_file: the file under analysis
    checker,    \* check_python_file: the SQLInjectionChecker after its visit
    result,     \* check_python_file: the returned (is_safe, issues)
    module      \* validate_odoo_structure main: the manifest and directory given

vars == <<pc, argv, i, all_safe, stdout, reads, exit_code, file, checker, result, module>>

(***************************************************************************)
(* Bounds of the model.                                                    *)
(***************************************************************************)
MaxArgv == 2
MaxStmts == 2

(***************************************************************************)
(* Text helpers.                                                           *)
(***************************************************************************)
\* s[a..] of length n equals lit
StartsAt(s, a, lit) ==
    /\ a >= 1
    /\ a + Len(lit) - 1 <= Len(s)
    /\ \A k \in 1..Len(lit) : s[a + k - 1] = lit[k]

\* Python's `needle in hay` on strings
Contains(hay, needle) == \E a \in 1..(Len(hay) + 1) : StartsAt(hay, a, needle)

UpperCase == <<"A","B","C","D","E","F","G","H","I","J","K","L","M","N","O","P",
               "Q","R","S","T","U","V","W","X","Y","Z">>
LowerCase == <<"a","b","c","d","e","f","g","h","i","j","k","l","m","n","o","p",
               "q","r","s","t","u","v","w","x","y","z">>

LowerChar(c) ==
    IF \E k \in 1..26 : UpperCase[k] = c
    THEN LowerCase[CHOOSE k \in 1..26 : UpperCase[k] = c]
    ELSE c

\* str.lower()
Lower(s) == [k \in 1..Len(s) |-> LowerChar(s[k])]

Quotes == {"\"", "'"}

DotExecuteParen == <<".","e","x","e","c","u","t","e","(">>

(***************************************************************************)
(* The three textual rules of check_python_file: re.compile(...,           *)
(* re.DOTALL).search(content) is truthy iff some substring matches, so a   *)
(* lazy `.*?` may run over any characters, line breaks and quotes          *)
(* included.                                                               *)
(***************************************************************************)
\* r'\.execute\(["\'].*?%(?!s).*?["\']'
pattern_format(content) ==
    \E a \in 1..Len(content) :
        /\ StartsAt(content, a, DotExecuteParen)
        /\ a + 9 <= Len(content)
        /\ content[a + 9] \in Quotes
        /\ \E j \in (a + 10)..Len(content) :
              /\ content[j] = "%"
              /\ (j = Len(content) \/ content[j + 1] # "s")
              /\ \E k \in (j + 1)..Len(content) : content[k] \in Quotes

\* r'\.execute\(f["\'].*?\{.*?\}.*?["\']'
pattern_fstring(content) ==
    \E a \in 1..Len(content) :
        /\ StartsAt(content, a, DotExecuteParen)
        /\ a + 10 <= Len(content)
        /\ content[a + 9] = "f"
        /\ content[a + 10] \in Quotes
        /\ \E j \in (a + 11)..Len(content) :
              /\ content[j] = "{"
              /\ \E k \in (j + 1)..Len(content) :
                    /\ content[k] = "}"
                    /\ \E l \in (k + 1)..Len(content) : content[l] \in Quotes

\* r'\.execute\([^)]*\+[^)]*\)'
pattern_concat(content) ==
    \E a \in 1..Len(content) :
        /\ StartsAt(content, a, DotExecuteParen)
        /\ \E j \in (a + 9)..Len(content) :
              /\ content[j] = "+"
              /\ \A m \in (a + 9)..(j - 1) : content[m] # ")"
              /\ \E k \in (j + 1)..Len(content) : content[k] = ")"

\* A finding: the issue string f"{filepath}[:{lineno}]: {message}{detail}";
\* line 0 stands for a whole-file finding, which carries no line number.
Issue(filepath, lineno, msg, detail) ==
    [path |-> filepath, line |-> lineno, msg |-> msg, detail |-> detail]

MsgFormat == "Detected string formatting in SQL execute() call. Use parameterized queries."
MsgFString == "CRITICAL: f-string used in SQL execute() call. This is a SQL injection vulnerability!"
MsgConcat == "String concatenation detected in SQL execute(). Use parameterized queries."
MsgAstConcat == "Potential SQL injection: SQL string uses concatenation or f-string. Use parameterized queries instead."
MsgAstFormat == "Potential SQL injection: SQL string uses .format() or .replace(). Use parameterized queries with %s placeholders."
MsgEncoding == "File encoding error (expected UTF-8)"
MsgError == "Error analyzing file: "

\* lines 65-98: the issues list after the three regex checks
TextualIssues(filepath, content) ==
    (IF pattern_format(content) THEN <<Issue(filepath, 0, MsgFormat, "")>> ELSE <<>>)
    \o (IF pattern_fstring(content) THEN <<Issue(filepath, 0, MsgFString, "")>> ELSE <<>>)
    \o (IF pattern_concat(content) THEN <<Issue(filepath, 0, MsgConcat, "")>> ELSE <<>>)

(***************************************************************************)
(* Syntax trees, as ast.parse builds them.  fields holds, per field of the *)
(* node class in _fields order, the sequence of child nodes (one element   *)
(* for a node-valued field, the list for a list-valued field); fields that *)
(* hold no node (identifiers, None) are not listed, as generic_visit skips *)
(* them.  attr is the node's text: Attribute.attr, Name.id, keyword.arg,   *)
(* arg.arg, FunctionDef.name, and the source text of a Constant.           *)
(***************************************************************************)
Node(type, attr, fields) ==
    [type |-> type, attr |-> attr, lineno |-> 0, col_offset |-> 0, fields |-> fields]

Load == Node("Load", <<>>, <<>>)
Store == Node("Store", <<>>, <<>>)
Name(id) == Node("Name", id, << <<Load>> >>)                              \* id, ctx
Target(id) == Node("Name", id, << <<Store>> >>)
Constant(src) == Node("Constant", src, <<>>)                              \* value, kind
Attribute(value, attr) == Node("Attribute", attr, << <<value>>, <<Load>> >>)  \* value, attr, ctx
\* left, op, right; op is "Add" or "Mod"
BinOp(left, op, right) == Node("BinOp", <<>>, << <<left>>, <<Node(op, <<>>, <<>>)>>, <<right>> >>)
FormattedValue(value) == Node("FormattedValue", <<>>, << <<value>> >>)    \* value, conversion, format_spec
JoinedStr(values) == Node("JoinedStr", <<>>, <<values>>)                  \* values
Tuple(elts) == Node("Tuple", <<>>, <<elts, <<Load>> >>)                   \* elts, ctx
keyword(arg, value) == Node("keyword", arg, << <<value>> >>)              \* arg, value
Call(func, args, keywords) == Node("Call", <<>>, << <<func>>, args, keywords >>)
Expr(value) == Node("Expr", <<>>, << <<value>> >>)                        \* value
Assign(target, value) == Node("Assign", <<>>, << <<target>>, <<value>> >>)  \* targets, value, type_comment
arg(name) == Node("arg", name, <<>>)                                      \* arg, annotation, type_comment
\* posonlyargs, args, vararg, kwonlyargs, kw_defaults, kwarg, defaults
arguments(args, defaults) == Node("arguments", <<>>, << <<>>, args, <<>>, <<>>, defaults >>)
\* name, args, body, decorator_list, returns, type_comment
FunctionDef(name, args, body, decorator_list) ==
    Node("FunctionDef", name, << <<args>>, body, decorator_list >>)
Module(body) == Node("Module", <<>>, <<body, <<>> >>)                     \* body, type_ignores

\* the field accessors visit_Call uses
func(node) == node.fields[1][1]
args(node) == node.fields[2]
keywords(node) == node.fields[3]

\* all child nodes, in generic_visit's order
Children(node) ==
    LET RECURSIVE Flat(_)
        Flat(fs) == IF fs = <<>> THEN <<>> ELSE Head(fs) \o Flat(Tail(fs))
    IN Flat(node.fields)

(***************************************************************************)
(* Source text of a tree, and ast.parse back from it.  Unparse writes the  *)
(* one text the model's files hold for a tree; Located gives each node the *)
(* line and column where its text starts there, which is what ast.parse    *)
(* records in lineno and col_offset.                                       *)
(***************************************************************************)
Spaces(n) == [k \in 1..n |-> " "]

RECURSIVE Unparse(_)
\* the texts of items, separated by sep
Joined(items, sep) ==
    LET RECURSIVE J(_)
        J(s) == IF s = <<>> THEN <<>>
                ELSE Unparse(Head(s)) \o (IF Len(s) > 1 THEN sep ELSE <<>>) \o J(Tail(s))
    IN J(items)
Unparse(n) ==
    LET f == n.fields
    IN CASE n.type \in {"Name", "Constant", "arg"} -> n.attr
         [] n.type = "Attribute" -> Unparse(f[1][1]) \o <<".">> \o n.attr
         [] n.type = "BinOp" ->
               Unparse(f[1][1]) \o <<" ", IF f[2][1].type = "Add" THEN "+" ELSE "%", " ">>
               \o Unparse(f[3][1])
         [] n.type = "FormattedValue" -> <<"{">> \o Unparse(f[1][1]) \o <<"}">>
         [] n.type = "JoinedStr" -> <<"f", "\"">> \o Joined(f[1], <<>>) \o <<"\"">>
         [] n.type = "Tuple" -> <<"(">> \o Joined(f[1], <<",", " ">>) \o <<",", ")">>
         [] n.type = "keyword" -> n.attr \o <<"=">> \o Unparse(f[1][1])
         [] n.type = "Call" -> Unparse(f[1][1]) \o <<"(">> \o Joined(f[2] \o f[3], <<",", " ">>) \o <<")">>
         [] OTHER -> <<>>

\* `def name(a=d, ...):`; the defaults belong to the last parameters
ParamText(a, k) ==
    LET d == k - (Len(a[2]) - Len(a[5]))
    IN a[2][k].attr \o (IF d >= 1 THEN <<"=">> \o Unparse(a[5][d]) ELSE <<>>)
     \o (IF k < Len(a[2]) THEN <<",", " ">> ELSE <<>>)
ParamsText(a) ==
    LET RECURSIVE P(_)
        P(k) == IF k > Len(a[2]) THEN <<>> ELSE ParamText(a, k) \o P(k + 1)
    IN P(1)

\* the lines of a statement, indented, without the final line break
RECURSIVE UnparseStmt(_, _)
UnparseStmts(stmts, indent) ==
    LET RECURSIVE U(_)
        U(s) == IF s = <<>> THEN <<>>
                ELSE UnparseStmt(Head(s), indent) \o (IF Len(s) > 1 THEN <<"\n">> ELSE <<>>)
                     \o U(Tail(s))
    IN U(stmts)
UnparseStmt(s, indent) ==
    LET f == s.fields
    IN CASE s.type = "Expr" -> Spaces(indent) \o Unparse(f[1][1])
         [] s.type = "Assign" ->
               Spaces(indent) \o Unparse(f[1][1]) \o <<" ", "=", " ">> \o Unparse(f[2][1])
         [] s.type = "FunctionDef" ->
               LET RECURSIVE Decorators(_)
                   Decorators(ds) ==
                       IF ds = <<>> THEN <<>>
                       ELSE Spaces(indent) \o <<"@">> \o Unparse(Head(ds)) \o <<"\n">>
                            \o Decorators(Tail(ds))
               IN Decorators(f[3]) \o Spaces(indent) \o <<"d", "e", "f", " ">> \o s.attr
                  \o <<"(">> \o ParamsText(f[1][1].fields) \o <<")", ":", "\n">>
                  \o UnparseStmts(f[2], indent + 4)
         [] OTHER -> <<>>

RECURSIVE LocE(_, _, _)
\* items laid out from column col on, gap characters between them
LocItems(items, line, col, gap) ==
    LET RECURSIVE Loc(_, _)
        Loc(s, c) == IF s = <<>> THEN <<>>
                     ELSE <<LocE(Head(s), line, c)>>
                          \o Loc(Tail(s), c + Len(Unparse(Head(s))) + gap)
    IN Loc(items, col)
LocE(n, line, col) ==
    LET at == [n EXCEPT !.lineno = line, !.col_offset = col]
        f == n.fields
    IN CASE n.type \in {"Name", "Constant"} -> at
         [] n.type = "Attribute" ->
               [at EXCEPT !.fields = << <<LocE(f[1][1], line, col)>>, f[2] >>]
         [] n.type = "BinOp" ->
               [at EXCEPT !.fields = << <<LocE(f[1][1], line, col)>>, f[2],
                                        <<LocE(f[3][1], line, col + Len(Unparse(f[1][1])) + 3)>> >>]
         [] n.type = "FormattedValue" ->
               [at EXCEPT !.fields = << <<LocE(f[1][1], line, col + 1)>> >>]
         [] n.type = "JoinedStr" ->
               [at EXCEPT !.fields = << LocItems(f[1], line, col + 2, 0) >>]
         [] n.type = "Tuple" ->
               [at EXCEPT !.fields = << LocItems(f[1], line, col + 1, 2), f[2] >>]
         [] n.type = "keyword" ->
               [at EXCEPT !.fields = << <<LocE(f[1][1], line, col + Len(n.attr) + 1)>> >>]
         [] n.type = "Call" ->
               LET items == LocItems(f[2] \o f[3], line, col + Len(Unparse(f[1][1])) + 1, 2)
               IN [at EXCEPT !.fields = << <<LocE(f[1][1], line, col)>>,
                                           SubSeq(items, 1, Len(f[2])),
                                           SubSeq(items, Len(f[2]) + 1, Len(items)) >>]
         [] OTHER -> n

\* the column of parameter k of a def whose `(` is followed by column col
ParamStart(a, col, k) ==
    LET RECURSIVE S(_)
        S(j) == IF j >= k THEN 0 ELSE Len(ParamText(a, j)) + S(j + 1)
    IN col + S(1)

\* the parameters and defaults of a def, on its line
LocArguments(n, line, col) ==
    LET f == n.fields
        d0 == Len(f[2]) - Len(f[5])
    IN [n EXCEPT !.fields =
           << f[1],
              [k \in 1..Len(f[2]) |->
                  [f[2][k] EXCEPT !.lineno = line, !.col_offset = ParamStart(f, col, k)]],
              f[3], f[4],
              [d \in 1..Len(f[5]) |->
                  LocE(f[5][d], line, ParamStart(f, col, d0 + d) + Len(f[2][d0 + d].attr) + 1)] >>]

\* the number of lines of a statement
RECURSIVE Height(_)
SumHeight(stmts) ==
    LET RECURSIVE Sum(_)
        Sum(s) == IF s = <<>> THEN 0 ELSE Height(Head(s)) + Sum(Tail(s))
    IN Sum(stmts)
Height(s) ==
    IF s.type = "FunctionDef" THEN Len(s.fields[3]) + 1 + SumHeight(s.fields[2]) ELSE 1

RECURSIVE LocS(_, _, _)
LocStmts(stmts, line, col) ==
    LET RECURSIVE Loc(_, _)
        Loc(s, l) == IF s = <<>> THEN <<>>
                     ELSE <<LocS(Head(s), l, col)>> \o Loc(Tail(s), l + Height(Head(s)))
    IN Loc(stmts, line)
LocS(s, line, col) ==
    LET f == s.fields
    IN CASE s.type = "Expr" ->
               [s EXCEPT !.lineno = line, !.col_offset = col,
                         !.fields = << <<LocE(f[1][1], line, col)>> >>]
         [] s.type = "Assign" ->
               [s EXCEPT !.lineno = line, !.col_offset = col,
                         !.fields = << <<LocE(f[1][1], line, col)>>,
                                       <<LocE(f[2][1], line, col + Len(Unparse(f[1][1])) + 3)>> >>]
         [] s.type = "FunctionDef" ->
               LET def == line + Len(f[3])
               IN [s EXCEPT !.lineno = def, !.col_offset = col,
                            !.fields = <<
                                << LocArguments(f[1][1], def, col + 4 + Len(s.attr) + 1) >>,
                                LocStmts(f[2], def + 1, col + 4),
                                [k \in 1..Len(f[3]) |-> LocE(f[3][k], line + k - 1, col + 1)] >>]
         [] OTHER -> s

\* ast.parse of the text of `body`: the module, every node with its position
Parsed(body) == Module(LocStmts(body, 1, 0))

\* node a starts before node b in the source text
StartsBefore(a, b) ==
    \/ a.lineno < b.lineno
    \/ a.lineno = b.lineno /\ a.col_offset < b.col_offset

(***************************************************************************)
(* class SQLInjectionChecker(ast.NodeVisitor).  self is the visitor        *)
(* object: filepath, issues, its visit_ methods, and flagged, the history   *)
(* of the call nodes the issues were appended for (an issue keeps only the *)
(* node's line).                                                           *)
(***************************************************************************)
SQLInjectionChecker(filepath) ==
    [filepath |-> filepath, issues |-> <<>>, flagged |-> <<>>, methods |-> {"visit_Call"}]

Append_issue(self, node, msg) ==
    [self EXCEPT !.issues = Append(@, Issue(self.filepath, node.lineno, msg, "")),
                 !.flagged = Append(@, node)]

S_execute == <<"e","x","e","c","u","t","e">>
S_format == <<"f","o","r","m","a","t">>
S_replace == <<"r","e","p","l","a","c","e">>

\* lines 26-47 of visit_Call: the checks before generic_visit
check_Call(self, node) ==
    IF func(node).type = "Attribute"
    THEN IF func(node).attr = S_execute /\ Len(args(node)) > 0
         THEN LET first_arg == args(node)[1]
              IN IF first_arg.type \in {"BinOp", "JoinedStr"}
                 THEN Append_issue(self, node, MsgAstConcat)
                 ELSE IF first_arg.type = "Call"
                      THEN IF func(first_arg).type = "Attribute"
                           THEN IF func(first_arg).attr \in {S_format, S_replace}
                                THEN Append_issue(self, node, MsgAstFormat)
                                ELSE self
                           ELSE self
                      ELSE self
         ELSE self
    ELSE self

RECURSIVE visit(_, _)
\* ast.NodeVisitor.generic_visit: visit every child node, field by field
generic_visit(self, node) ==
    LET kids == Children(node)
        RECURSIVE Each(_, _)
        Each(s, k) == IF k > Len(kids) THEN s ELSE Each(visit(s, kids[k]), k + 1)
    IN Each(self, 1)

\* variant of visit_Call without line 49: the visitor stops at a call
visit_Call_no_descent(self, node) == check_Call(self, node)

\* variant of visit_Call with line 49 moved before the checks
visit_Call_children_first(self, node) == check_Call(generic_visit(self, node), node)

visit_Call(self, node) == generic_visit(check_Call(self, node), node)

\* ast.NodeVisitor.visit: getattr(self, 'visit_' + class name, self.generic_visit);
\* visit_Call is the one visit_ method the class defines
visit(self, node) ==
    IF "visit_Call" \in self.methods /\ node.type = "Call"
    THEN visit_Call(self, node)
    ELSE generic_visit(self, node)

(***************************************************************************)
(* Identifiers and literals of the files below, as the characters of their *)
(* source text.                                                            *)
(***************************************************************************)
Ident ==
    [ cursor |-> <<"c","u","r","s","o","r">>,
      cr |-> <<"c","r">>,
      db |-> <<"d","b">>,
      q |-> <<"q">>,
      x |-> <<"x">>,
      a |-> <<"a">>,
      b |-> <<"b">>,
      query |-> <<"q","u","e","r","y">>,
      name |-> <<"n","a","m","e">>,
      print |-> <<"p","r","i","n","t">>,
      total |-> <<"t","o","t","a","l">>,
      count |-> <<"c","o","u","n","t">>,
      r |-> <<"r">>,
      y |-> <<"y">>,
      z |-> <<"z">>,
      f |-> <<"f">>,
      executemany |-> <<"e","x","e","c","u","t","e","m","a","n","y">>,
      strip |-> <<"s","t","r","i","p">>,
      params |-> <<"p","a","r","a","m","s">>,
      route |-> <<"r","o","u","t","e">>,
      self |-> <<"s","e","l","f">> ]

\* literals with their quotes; select_raw is the unquoted head of the f-string
Lit ==
    [ select_s |-> <<"\"","S","E","L","E","C","T"," ","*"," ","F","R","O","M"," ","t"," ","W","H","E",
          "R","E"," ","i","d","=","%","s","\"">>,
      select_eq |-> <<"\"","S","E","L","E","C","T"," ","*"," ","F","R","O","M"," ","t"," ","W",
          "H","E","R","E"," ","i","d","=","\"">>,
      select_raw |-> <<"S","E","L","E","C","T"," ","*"," ","F","R","O","M"," ","t"," ","W","H",
          "E","R","E"," ","i","d","=">>,
      update_pct |-> <<"\"","U","P","D","A","T","E"," ","t"," ","S","E","T"," ","p","=","1","0",
          "0","%","\"">>,
      empty |-> <<"\"","\"">>,
      a |-> <<"\"","a","\"">>,
      r |-> <<"\"","r","\"">>,
      seven |-> <<"7">>,
      two |-> <<"2">> ]

\* 'cursor.execute("SELECT * FROM t WHERE id=%s", (x,))'
ParamCallText ==
    <<"c","u","r","s","o","r",".","e","x","e","c","u","t","e","(","\"","S","E","L","E","C","T"," ",
      "*"," ","F","R","O","M"," ","t"," ","W","H","E","R","E"," ","i","d","=","%","s","\"",","," ",
      "(","x",",",")",")">>
\* 'cursor.execute("SELECT * FROM t WHERE id=%s" % x)'
PercentCallText ==
    <<"c","u","r","s","o","r",".","e","x","e","c","u","t","e","(","\"","S","E","L","E","C","T"," ",
      "*"," ","F","R","O","M"," ","t"," ","W","H","E","R","E"," ","i","d","=","%","s","\""," ","%",
      " ","x",")">>
\* ' # 100% "sure"\n'
TailCommentText ==
    <<" ","#"," ","1","0","0","%"," ","\"","s","u","r","e","\"","\n">>
\* '\ncursor.execute("a" +'
TailTruncatedText ==
    <<"\n","c","u","r","s","o","r",".","e","x","e","c","u","t","e","(","\"","a","\""," ","+">>
\* '\ndef f(:\n'
TailBadDefText ==
    <<"\n","d","e","f"," ","f","(",":","\n">>

(***************************************************************************)
(* Files.  A file is its bytes read as characters (content), what          *)
(* Path.read_text does on it (decode: "ok", "UnicodeDecodeError", or the   *)
(* name of another error such as "FileNotFoundError"), what ast.parse does *)
(* on the content (parse: "ok", "SyntaxError", or the name of another      *)
(* exception) and, when it parses, the statements of its module (body).    *)
(***************************************************************************)
Execute(obj) == Attribute(Name(obj), S_execute)
ParamCall == Call(Execute(Ident.cursor), <<Constant(Lit.select_s), Tuple(<<Name(Ident.x)>>)>>, <<>>)
PercentCall == Call(Execute(Ident.cursor), <<BinOp(Constant(Lit.select_s), "Mod", Name(Ident.x))>>, <<>>)
FStringCall ==
    Call(Execute(Ident.cursor),
         <<JoinedStr(<<Constant(Lit.select_raw), FormattedValue(Name(Ident.x))>>)>>, <<>>)
ConcatCall == Call(Execute(Ident.cursor), <<BinOp(Constant(Lit.select_eq), "Add", Name(Ident.x))>>, <<>>)
FormatCall ==
    Call(Execute(Ident.cursor), <<Call(Attribute(Name(Ident.query), S_format), <<Name(Ident.name)>>, <<>>)>>, <<>>)
ReplaceCall ==
    Call(Execute(Ident.db),
         <<Call(Attribute(Name(Ident.q), S_replace), <<Name(Ident.a), Name(Ident.b)>>, <<>>)>>, <<>>)
LiteralPctCall == Call(Execute(Ident.cursor), <<Constant(Lit.update_pct)>>, <<>>)

\* A head is the first statement of a file: an execute call, or `total = count`.
\* stmt is its statement class and top the expression the statement ends with.
Heads ==
    {[stmt |-> "Expr", top |-> c] :
        c \in {ParamCall, PercentCall, FStringCall, ConcatCall, FormatCall, LiteralPctCall}}
    \cup {[stmt |-> "Assign", top |-> Name(Ident.count)]}

HeadStmt(h, top) == IF h.stmt = "Expr" THEN Expr(top) ELSE Assign(Target(Ident.total), top)

\* A tail is what follows the head: "stmts" adds statements (possibly none) on
\* the following lines, "mod" continues the head's last expression with ` % ""`,
\* "error" leaves a file that is no Python; text is what follows the last
\* statement (a line break, a comment, the text that does not parse).
Tails ==
    { [syntax |-> "stmts", stmts |-> <<>>, text |-> <<>>],
      [syntax |-> "stmts", stmts |-> <<>>, text |-> <<"\n">>],
      [syntax |-> "stmts", stmts |-> <<>>, text |-> TailCommentText],
      [syntax |-> "stmts", text |-> <<"\n">>,
       stmts |-> << Assign(Target(Ident.r), BinOp(Constant(Lit.seven), "Mod", Constant(Lit.two))),
                    Expr(Call(Name(Ident.print), <<Constant(Lit.r)>>, <<>>)) >>],
      [syntax |-> "stmts", text |-> <<"\n">>, stmts |-> << Assign(Target(Ident.y), Constant(Lit.a)) >>],
      [syntax |-> "stmts", text |-> <<"\n">>,
       stmts |-> << Assign(Target(Ident.z), BinOp(Name(Ident.a), "Add", Name(Ident.b))) >>],
      [syntax |-> "stmts", text |-> <<"\n">>, stmts |-> << Expr(ReplaceCall) >>],
      [syntax |-> "mod", stmts |-> <<>>, text |-> <<>>],
      [syntax |-> "error", stmts |-> <<>>, text |-> TailTruncatedText],
      [syntax |-> "error", stmts |-> <<>>, text |-> TailBadDefText] }

\* the file that is head h followed by tail t
SourceFile(h, t) ==
    LET stmts == CASE t.syntax = "stmts" -> <<HeadStmt(h, h.top)>> \o t.stmts
                   [] t.syntax = "mod" -> <<HeadStmt(h, BinOp(h.top, "Mod", Constant(Lit.empty)))>>
                   [] OTHER -> <<HeadStmt(h, h.top)>>
    IN [decode |-> "ok",
        content |-> UnparseStmts(stmts, 0) \o t.text,
        parse |-> IF t.syntax = "error" THEN "SyntaxError" ELSE "ok",
        body |-> IF t.syntax = "error" THEN <<>> ELSE stmts]

SourceFiles == {SourceFile(h, t) : h \in Heads, t \in Tails}

(***************************************************************************)
(* Files generated from trees: execute-like calls of every shape of callee *)
(* and arguments, calls nested in calls, and modules of up to MaxStmts     *)
(* statements, function definitions with decorators and defaults among     *)
(* them.                                                                   *)
(***************************************************************************)
FirstArgs ==
    { Name(Ident.q), Constant(Lit.a),
      BinOp(Constant(Lit.a), "Add", Name(Ident.x)),
      BinOp(Constant(Lit.a), "Mod", Name(Ident.x)),
      JoinedStr(<<FormattedValue(Name(Ident.x))>>),
      Call(Attribute(Name(Ident.q), S_format), <<Name(Ident.x)>>, <<>>),
      Call(Attribute(Name(Ident.q), S_replace), <<Name(Ident.a), Name(Ident.b)>>, <<>>),
      Call(Attribute(Name(Ident.q), Ident.strip), <<>>, <<>>),
      Call(Name(S_format), <<Name(Ident.q)>>, <<>>) }

Callees ==
    { Execute(Ident.cr), Attribute(Name(Ident.cr), Ident.executemany), Name(S_execute),
      Attribute(Attribute(Name(Ident.self), Ident.cr), S_execute) }

MoreArgs == { <<>>, <<BinOp(Constant(Lit.a), "Add", Name(Ident.x))>> }

Keywords ==
    { <<>>, <<keyword(Ident.params, JoinedStr(<<FormattedValue(Name(Ident.x))>>))>> }

SimpleCalls ==
    {Call(c, a, k) : c \in Callees, a \in {<<>>} \cup {<<f>> \o m : f \in FirstArgs, m \in MoreArgs},
                     k \in Keywords}

\* calls inside a call: in its first argument, a later argument, a keyword
\* argument, and in the object its method is called on
Inner == {Call(Execute(Ident.db), <<a>>, <<>>) :
             a \in {Constant(Lit.a), BinOp(Constant(Lit.a), "Add", Name(Ident.x)),
                    Call(Attribute(Name(Ident.q), S_format), <<Name(Ident.x)>>, <<>>)}}
NestedCalls ==
    UNION {{ Call(Execute(Ident.cr), <<BinOp(Constant(Lit.a), "Add", n)>>, <<>>),
             Call(Execute(Ident.cr), <<n>>, <<>>),
             Call(Execute(Ident.cr), <<Name(Ident.q), n>>, <<>>),
             Call(Execute(Ident.cr), <<Name(Ident.q)>>, <<keyword(Ident.params, n)>>),
             Call(Execute(Ident.cr), <<JoinedStr(<<FormattedValue(Name(Ident.x))>>), n>>,
                  <<keyword(Ident.params, n)>>),
             Call(Attribute(n, S_execute), <<JoinedStr(<<FormattedValue(Name(Ident.x))>>)>>, <<>>),
             Call(Execute(Ident.cr), <<Call(Attribute(n, S_format), <<Name(Ident.x)>>, <<>>)>>, <<>>),
             Call(Name(Ident.print), <<n>>, <<>>) } : n \in Inner}

Def(decorators, defaults, body) ==
    FunctionDef(Ident.f, arguments([k \in 1..Len(defaults) |-> arg(Ident.a)], defaults), body, decorators)

\* the statements modules are built of
StmtPool ==
    { Expr(ConcatCall),
      Expr(ParamCall),
      Assign(Target(Ident.y), Constant(Lit.a)),
      Expr(Call(Execute(Ident.cr), <<Name(Ident.q), ReplaceCall>>, <<keyword(Ident.params, FStringCall)>>)),
      Def(<<>>, <<>>, <<Expr(FormatCall)>>),
      Def(<<ReplaceCall>>, <<>>, <<Expr(FStringCall)>>),
      Def(<<Call(Name(Ident.route), <<ConcatCall>>, <<>>), Name(Ident.route)>>, <<PercentCall>>,
          <<Assign(Target(Ident.y), Constant(Lit.a)), Expr(FormatCall)>>),
      Def(<<Name(Ident.route)>>, <<FormatCall>>, <<Def(<<ConcatCall>>, <<>>, <<Expr(ParamCall)>>)>>) }

Bodies ==
    {<<Expr(c)>> : c \in SimpleCalls \cup NestedCalls}
    \cup UNION {[1..n -> StmtPool] : n \in 1..MaxStmts}

GeneratedFile(stmts) ==
    [decode |-> "ok", content |-> UnparseStmts(stmts, 0) \o <<"\n">>, parse |-> "ok",
     body |-> stmts]

GeneratedFiles == {GeneratedFile(b) : b \in Bodies}

\* the same bytes followed by one that is not UTF-8
Undecodable(f) == [f EXCEPT !.decode = "UnicodeDecodeError", !.parse = "ok", !.body = <<>>]
\* no file at the path, or no permission to read it
Unreadable == {[decode |-> e, content |-> <<>>, parse |-> "ok", body |-> <<>>] :
                  e \in {"FileNotFoundError", "PermissionError"}}
\* ast.parse or the visit fails with an exception that is no SyntaxError:
\* RecursionError or MemoryError on deeply nested source
ParseRaises(f, e) == [f EXCEPT !.parse = e, !.body = <<>>]

Files ==
    SourceFiles
    \cup GeneratedFiles
    \cup {Undecodable(f) : f \in SourceFiles}
    \cup Unreadable
    \cup {ParseRaises(f, e) : f \in SourceFiles, e \in {"RecursionError", "MemoryError"}}

(***************************************************************************)
(* check_python_file(filepath), with the file found at filepath.           *)
(***************************************************************************)
\* line 110
Returned(issues) == [is_safe |-> Len(issues) = 0, issues |-> issues]

\* lines 102-104: the visitor after checker.visit(tree)
Visited(filepath, f) == visit(SQLInjectionChecker(filepath), Parsed(f.body))

\* lines 101-108: the AST pass, with `except SyntaxError: pass`
StructuralIssues(filepath, f) ==
    IF f.parse = "ok" THEN Visited(filepath, f).issues ELSE <<>>

\* variant of check_python_file that reads with errors="replace": both passes
\* run on whatever decodes
check_python_file_decode_ignored(filepath, f) ==
    Returned(TextualIssues(filepath, f.content) \o StructuralIssues(filepath, f))

\* variant of check_python_file without the inner `except SyntaxError: pass`
check_python_file_syntax_error_reported(filepath, f) ==
    IF f.decode = "UnicodeDecodeError"
    THEN [is_safe |-> FALSE, issues |-> <<Issue(filepath, 0, MsgEncoding, "")>>]
    ELSE IF f.decode # "ok"
    THEN [is_safe |-> FALSE, issues |-> <<Issue(filepath, 0, MsgError, f.decode)>>]
    ELSE IF f.parse # "ok"
    THEN [is_safe |-> FALSE, issues |-> <<Issue(filepath, 0, MsgError, f.parse)>>]
    ELSE Returned(TextualIssues(filepath, f.content) \o StructuralIssues(filepath, f))

check_python_file(filepath, f) ==
    IF f.decode = "UnicodeDecodeError"                                   \* line 112
    THEN [is_safe |-> FALSE, issues |-> <<Issue(filepath, 0, MsgEncoding, "")>>]
    ELSE IF f.decode # "ok"                                              \* line 114
    THEN [is_safe |-> FALSE, issues |-> <<Issue(filepath, 0, MsgError, f.decode)>>]
    ELSE IF f.parse \notin {"ok", "SyntaxError"}                         \* line 114
    THEN [is_safe |-> FALSE, issues |-> <<Issue(filepath, 0, MsgError, f.parse)>>]
    ELSE Returned(TextualIssues(filepath, f.content) \o StructuralIssues(filepath, f))

(***************************************************************************)
(* Specification SpecFile: check_python_file called on one file.           *)
(***************************************************************************)
P_module == <<"m",".","p","y">>

NotReturned == [is_safe |-> FALSE, issues |-> <<>>]
NoModule == [manifest |-> "none"]

InitFile ==
    /\ pc = "call"
    /\ file \in {[path |-> P_module, data |-> f] : f \in Files}
    /\ checker = SQLInjectionChecker(<<>>)
    /\ result = NotReturned
    /\ argv = <<>> /\ i = 0 /\ all_safe = FALSE /\ stdout = <<>> /\ reads = <<>>
    /\ exit_code = -1 /\ module = NoModule

\* check_python_file(file.path) runs to its return
CheckFile ==
    /\ pc = "call"
    /\ result' = check_python_file(file.path, file.data)
    /\ checker' = IF file.data.decode = "ok" /\ file.data.parse = "ok"
                  THEN Visited(file.path, file.data)
                  ELSE checker
    /\ pc' = "returned"
    /\ UNCHANGED <<argv, i, all_safe, stdout, reads, exit_code, file, module>>

NextFile == CheckFile

SpecFile == InitFile /\ [][NextFile]_vars

(***************************************************************************)
(* Specification Spec: main of check_sql_injection.py, one step per pass   *)
(* of its for loop.                                                        *)
(***************************************************************************)
P_plain == <<"a",".","p","y">>
P_test == <<"t","e","s","t","_","a",".","p","y">>
P_LaTest == <<"L","a","T","e","s","t",".","p","y">>
P_init == <<"_","_","i","n","i","t","_","_",".","p","y">>
P_INIT == <<"_","_","I","N","I","T","_","_",".","p","y">>
S_test == <<"t","e","s","t">>
S_init == <<"_","_","i","n","i","t","_","_">>

Paths == {P_plain, P_test, P_LaTest, P_init, P_INIT}

FStringFile == SourceFile([stmt |-> "Expr", top |-> FStringCall],
                          [syntax |-> "stmts", stmts |-> <<>>, text |-> <<"\n">>])
MainFiles ==
    { SourceFile([stmt |-> "Expr", top |-> ParamCall],
                 [syntax |-> "stmts", stmts |-> <<>>, text |-> <<"\n">>]),
      FStringFile,
      SourceFile([stmt |-> "Expr", top |-> ConcatCall],
                 [syntax |-> "error", stmts |-> <<>>, text |-> TailBadDefText]),
      Undecodable(FStringFile),
      ParseRaises(FStringFile, "RecursionError"),
      [decode |-> "FileNotFoundError", content |-> <<>>, parse |-> "ok", body |-> <<>>] }

\* sys.argv[1:]: every path with the file found at it
ArgvSet ==
    {a \in UNION {[1..n -> [path : Paths, data : MainFiles]] : n \in 0..MaxArgv} :
        \A j, k \in 1..Len(a) : a[j].path = a[k].path => a[j].data = a[k].data}

MsgUsage == "Usage: check_sql_injection.py <file1.py> [file2.py ...]"

Init ==
    /\ pc = "start"
    /\ argv \in ArgvSet
    /\ i = 0
    /\ all_safe = FALSE
    /\ stdout = <<>>
    /\ reads = <<>>
    /\ exit_code = -1
    /\ file = [path |-> <<>>, data |-> [decode |-> "ok", content |-> <<>>, parse |-> "ok", body |-> <<>>]]
    /\ checker = SQLInjectionChecker(<<>>)
    /\ result = NotReturned
    /\ module = NoModule

\* variant of SkipPath that compares "test" without lowering the path
SkipPath_case_sensitive(filepath) == Contains(filepath, S_test) \/ Contains(filepath, S_init)

\* line 131
SkipPath(filepath) == Contains(Lower(filepath), S_test) \/ Contains(filepath, S_init)

\* variant of NextAllSafe where the last file's verdict overwrites the flag
NextAllSafe_overwrite(flag, is_safe) == is_safe

\* lines 135-136
NextAllSafe(flag, is_safe) == IF ~is_safe THEN FALSE ELSE flag

\* variant of Printed that stops after a file's first issue
Printed_first_only(r) ==
    IF ~r.is_safe THEN <<[glyph |-> "x", issue |-> r.issues[1]]>> ELSE <<>>

\* lines 135-138: what one file adds to the output; a line is the failure
\* glyph and the issue
Printed(r) ==
    IF ~r.is_safe THEN [k \in 1..Len(r.issues) |-> [glyph |-> "x", issue |-> r.issues[k]]]
    ELSE <<>>

\* lines 124-126
Usage ==
    /\ pc = "start"
    /\ Len(argv) + 1 < 2
    /\ stdout' = Append(stdout, [glyph |-> "", issue |-> Issue(<<>>, 0, MsgUsage, "")])
    /\ exit_code' = 1
    /\ pc' = "done"
    /\ UNCHANGED <<argv, i, all_safe, reads, file, checker, result, module>>

\* line 128
Begin ==
    /\ pc = "start"
    /\ ~(Len(argv) + 1 < 2)
    /\ all_safe' = TRUE
    /\ i' = 1
    /\ pc' = "loop"
    /\ UNCHANGED <<argv, stdout, reads, exit_code, file, checker, result, module>>

\* lines 129-132: a pass of the loop that ends at `continue`
Skip ==
    /\ pc = "loop"
    /\ i <= Len(argv)
    /\ SkipPath(argv[i].path)
    /\ i' = i + 1
    /\ UNCHANGED <<pc, argv, all_safe, stdout, reads, exit_code, file, checker, result, module>>

\* lines 129-138: a pass of the loop that checks the file
Check ==
    /\ pc = "loop"
    /\ i <= Len(argv)
    /\ ~SkipPath(argv[i].path)
    /\ LET r == check_python_file(argv[i].path, argv[i].data)
       IN /\ file' = argv[i]
          /\ result' = r
          /\ reads' = Append(reads, argv[i].path)
          /\ all_safe' = NextAllSafe(all_safe, r.is_safe)
          /\ stdout' = stdout \o Printed(r)
    /\ i' = i + 1
    /\ UNCHANGED <<pc, argv, exit_code, checker, module>>

\* line 140
Return ==
    /\ pc = "loop"
    /\ i > Len(argv)
    /\ exit_code' = IF all_safe THEN 0 ELSE 1
    /\ pc' = "done"
    /\ UNCHANGED <<argv, i, all_safe, stdout, reads, file, checker, result, module>>

Next == Usage \/ Begin \/ Skip \/ Check \/ Return

Spec == Init /\ [][Next]_vars

(***************************************************************************)
(* validate_odoo_structure.py.  A manifest is the dictionary               *)
(* ast.literal_eval reads (keys, and the values of the keys the checks     *)
(* read; parses is FALSE when reading or evaluating the file raises).  A   *)
(* directory is what exists under the manifest's parent.                   *)
(***************************************************************************)
REQUIRED_MANIFEST_KEYS == {"name", "version", "depends", "license", "author"}
ALLOWED_LICENSES == {"AGPL-3", "LGPL-3", "GPL-3", "Apache-2.0", "MIT", "Other proprietary"}
DEPRECATED_KEYS == {"active", "description"}
\* the set, in the order the `for` of line 120 happens to walk it
REQUIRED_FILES == <<"__init__.py", "__manifest__.py", "README.md", "LICENSE">>
RECOMMENDED_DIRS == {"models", "views", "security", "data"}
OWL_COMPONENT_STRUCTURE == {"static/src/components", "static/src/views", "static/src/xml"}
ReadmeMinLength == 100

V_19_0_1_0_0 == <<"1","9",".","0",".","1",".","0",".","0">>
V_18_0_1_0_0 == <<"1","8",".","0",".","1",".","0",".","0">>
V_19_0_1 == <<"1","9",".","0",".","1">>
V_prefix == <<"1","9",".","0",".">>
D_base == <<"b","a","s","e">>
D_mail == <<"m","a","i","l">>
D_web == <<"w","e","b">>
S_ai == <<"a","i">>
S_server_action == <<"s","e","r","v","e","r","_","a","c","t","i","o","n">>
F_views == <<"v","i","e","w","s","/","v","i","e","w","s",".","x","m","l">>
F_server_action == <<"d","a","t","a","/","s","e","r","v","e","r","_","a","c","t","i","o","n",".","x","m","l">>

\* manifest.get(key, default)
Get(manifest, key, default) == IF key \in manifest.keys THEN manifest.values[key] ELSE default

\* len(s.split('.'))
DotParts(s) == 1 + Cardinality({k \in 1..Len(s) : s[k] = "."})

validate_manifest(manifest) ==
    IF ~manifest.parses THEN <<"Error parsing manifest">>                 \* lines 58-63
    ELSE
      LET version == Get(manifest, "version", <<>>)
          license_key == Get(manifest, "license", "")
          depends == Get(manifest, "depends", <<>>)
          data == Get(manifest, "data", <<>>)
      IN (IF REQUIRED_MANIFEST_KEYS \ manifest.keys # {}
          THEN <<"Missing required keys">> ELSE <<>>)
         \o (IF DEPRECATED_KEYS \cap manifest.keys # {}
             THEN <<"Deprecated keys found">> ELSE <<>>)
         \o (IF license_key # "" /\ license_key \notin ALLOWED_LICENSES
             THEN <<"Invalid license">> ELSE <<>>)
         \o (IF ~StartsAt(version, 1, V_prefix)
             THEN <<"Version must start with '19.0.'">> ELSE <<>>)
         \o (IF DotParts(version) # 5
             THEN <<"Version should have format 19.0.X.Y.Z">> ELSE <<>>)
         \o (IF (\E k \in 1..Len(depends) : Contains(Lower(depends[k]), S_ai))
                /\ ("data" \notin manifest.keys
                    \/ ~\E k \in 1..Len(data) : Contains(data[k], S_server_action))
             THEN <<"Module uses AI dependencies but no AI server actions found">> ELSE <<>>)
         \o (IF ~Get(manifest, "installable", TRUE)
             THEN <<"Module is marked as not installable">> ELSE <<>>)

validate_odoo_structure(dir) ==
    LET MissingFile(k) == IF REQUIRED_FILES[k] \notin dir.exists
                          THEN <<"Missing required file">> ELSE <<>>
    IN MissingFile(1) \o MissingFile(2) \o MissingFile(3) \o MissingFile(4)
       \o (IF "README.md" \in dir.exists /\ dir.readme_len < ReadmeMinLength
           THEN <<"README.md is too short (< 100 chars)">> ELSE <<>>)
       \o (IF RECOMMENDED_DIRS \cap dir.exists = {}
           THEN <<"Module should have at least one content directory">> ELSE <<>>)
       \o (IF "static/src" \in dir.exists /\ OWL_COMPONENT_STRUCTURE \cap dir.exists = {}
           THEN <<"Module has static/src but doesn't follow OWL structure">> ELSE <<>>)
       \o (IF "security" \in dir.exists /\ "security/ir.model.access.csv" \notin dir.exists
           THEN <<"security/ folder exists but no ir.model.access.csv found">> ELSE <<>>)

\* the names the module binds at its top level (lines 5-168)
ModuleGlobals ==
    {"ast", "sys", "Path", "REQUIRED_MANIFEST_KEYS", "ALLOWED_LICENSES", "DEPRECATED_KEYS",
     "REQUIRED_FILES", "RECOMMENDED_DIRS", "OWL_COMPONENT_STRUCTURE", "validate_manifest",
     "validate_odoo_structure", "main"}

\* the manifest validator main calls by name at line 178
CalledValidator == "validate_manifest_19"

(***************************************************************************)
(* Specification SpecValidate: main of validate_odoo_structure.py.         *)
(***************************************************************************)
ManifestValues(version, license, depends, data, installable) ==
    [k \in {"version", "license", "depends", "data", "installable"} |->
        CASE k = "version" -> version [] k = "license" -> license [] k = "depends" -> depends
          [] k = "data" -> data [] OTHER -> installable]

Manifests ==
    {[parses |-> p, keys |-> ks, values |-> ManifestValues(v, l, dep, dat, inst)] :
        p \in BOOLEAN,
        ks \in {REQUIRED_MANIFEST_KEYS, REQUIRED_MANIFEST_KEYS \cup {"data"},
                REQUIRED_MANIFEST_KEYS \cup {"description"}, REQUIRED_MANIFEST_KEYS \ {"author"},
                REQUIRED_MANIFEST_KEYS \cup {"data", "installable"}},
        v \in {V_19_0_1_0_0, V_18_0_1_0_0, V_19_0_1},
        l \in {"LGPL-3", "Proprietary"},
        dep \in {<<D_base>>, <<D_base, D_mail>>},
        dat \in {<<F_views>>, <<F_views, F_server_action>>},
        inst \in BOOLEAN}

AllRequiredFiles == {REQUIRED_FILES[k] : k \in 1..Len(REQUIRED_FILES)}

Directories ==
    {[exists |-> fs \cup ds, readme_len |-> n] :
        fs \in {AllRequiredFiles, AllRequiredFiles \ {"LICENSE"}},
        ds \in {{}, {"models"}, {"security"}, {"models", "security", "security/ir.model.access.csv"},
                {"views", "static/src"}, {"views", "static/src", "static/src/xml"}},
        n \in {40, 400}}

InitValidate ==
    /\ pc = "start"
    /\ module \in [argc : {0, 1}, manifest : Manifests, dir : Directories]
    /\ stdout = <<>>
    /\ exit_code = -1
    /\ argv = <<>> /\ i = 0 /\ all_safe = FALSE /\ reads = <<>>
    /\ file = [path |-> <<>>, data |-> [decode |-> "ok", content |-> <<>>, parse |-> "ok", body |-> <<>>]]
    /\ checker = SQLInjectionChecker(<<>>)
    /\ result = NotReturned

\* lines 170-172
ValidateUsage ==
    /\ pc = "start"
    /\ module.argc + 1 < 2
    /\ stdout' = <<"Usage: validate_odoo19_structure.py <manifest_path>">>
    /\ exit_code' = 1
    /\ pc' = "done"
    /\ UNCHANGED <<argv, i, all_safe, reads, file, checker, result, module>>

\* lines 174-188, to the exit of the process.  Line 178 looks the validator up
\* by name when it runs; a name the module does not bind raises NameError,
\* which nothing catches: the traceback goes to stderr and the status is 1.
ValidateMain ==
    /\ pc = "start"
    /\ ~(module.argc + 1 < 2)
    /\ IF CalledValidator \in ModuleGlobals
       THEN LET errors == validate_manifest(module.manifest)
                          \o validate_odoo_structure(module.dir)
            IN IF errors # <<>>
               THEN /\ stdout' = <<"Validation failed">>
                                 \o [k \in 1..Len(errors) |-> errors[k]]
                    /\ exit_code' = 1
               ELSE /\ stdout' = <<"Module is Odoo compliant">>
                    /\ exit_code' = 0
       ELSE /\ stdout' = stdout
            /\ exit_code' = 1
    /\ pc' = "done"
    /\ UNCHANGED <<argv, i, all_safe, reads, file, checker, result, module>>

NextValidate == ValidateUsage \/ ValidateMain

SpecValidate == InitValidate /\ [][NextValidate]_vars

(***************************************************************************)
(* What the claims speak of, stated apart from the code's own tests.       *)
(***************************************************************************)
\* the path contains "test" in some letter case
HasTestAnyCase(p) ==
    \E a \in 1..(Len(p) - 3) :
        /\ p[a] \in {"t", "T"}
        /\ p[a + 1] \in {"e", "E"}
        /\ p[a + 2] \in {"s", "S"}
        /\ p[a + 3] \in {"t", "T"}

\* the path contains exactly "__init__"
HasInit(p) == \E a \in 1..(Len(p) - 7) : SubSeq(p, a, a + 7) = S_init

Excluded(p) == HasTestAnyCase(p) \/ HasInit(p)

\* the finding list of the file at position k of argv
FindingsOf(k) == check_python_file(argv[k].path, argv[k].data).issues

\* the paths among the first n of argv that the skip filter lets through
EligiblePaths(n) ==
    LET RECURSIVE E(_)
        E(k) == IF k > n THEN <<>>
                ELSE (IF Excluded(argv[k].path) THEN <<>> ELSE <<argv[k].path>>) \o E(k + 1)
    IN E(1)

\* the lines for the first n of argv: the findings of each eligible file that
\* has any, file after file
ExpectedOutput(n) ==
    LET RECURSIVE O(_)
        O(k) == IF k > n THEN <<>>
                ELSE (IF Excluded(argv[k].path) THEN <<>>
                      ELSE [j \in 1..Len(FindingsOf(k)) |->
                               [glyph |-> "x", issue |-> FindingsOf(k)[j]]])
                     \o O(k + 1)
    IN O(1)

Running == pc \in {"loop", "done"} /\ Len(argv) >= 1

\* every node of a tree
RECURSIVE AllNodes(_)
AllNodes(n) == {n} \cup UNION {AllNodes(Children(n)[k]) : k \in 1..Len(Children(n))}

UnderAny(nodes) == UNION {AllNodes(nodes[k]) : k \in 1..Len(nodes)}

\* the call is one the structural rule is about
ShouldFlag(n) ==
    /\ n.type = "Call"
    /\ func(n).type = "Attribute"
    /\ func(n).attr = S_execute
    /\ Len(args(n)) >= 1
    /\ \/ args(n)[1].type \in {"BinOp", "JoinedStr"}
       \/ /\ args(n)[1].type = "Call"
          /\ func(args(n)[1]).type = "Attribute"
          /\ func(args(n)[1]).attr \in {S_format, S_replace}

Count(s, x) == Cardinality({k \in 1..Len(s) : s[k] = x})

Analysed == pc = "returned" /\ file.data.decode = "ok"
ParsedTree == Parsed(file.data.body)

\* x lies in a decorator of a function definition, y in its parameters or body
DecoratorOf(x, y) ==
    \E d \in AllNodes(ParsedTree) :
        /\ d.type = "FunctionDef"
        /\ x \in UnderAny(d.fields[3])
        /\ y \in UnderAny(d.fields[1]) \cup UnderAny(d.fields[2])

RuleRank(msg) == CASE msg = MsgFormat -> 1 [] msg = MsgFString -> 2 [] msg = MsgConcat -> 3
                   [] OTHER -> 4

\* whole-file (textual) findings come first, in rule order, and the rest are
\* the visitor's issues
TextualFirst ==
    LET s == result.issues
    IN /\ \A k, l \in 1..Len(s) : (k < l /\ s[l].line = 0) =>
              (s[k].line = 0 /\ RuleRank(s[k].msg) < RuleRank(s[l].msg))
       /\ Len(s) >= Len(checker.issues)
       /\ SubSeq(s, Len(s) - Len(checker.issues) + 1, Len(s)) = checker.issues
       /\ \A k \in 1..(Len(s) - Len(checker.issues)) : s[k].line = 0
       /\ \A k \in 1..Len(checker.issues) :
              checker.issues[k].line = checker.flagged[k].lineno /\ checker.issues[k].line > 0

ExecuteCalls(content) == Cardinality({a \in 1..Len(content) : StartsAt(content, a, DotExecuteParen)})

(***************************************************************************)
(* The claims.                                                             *)
(***************************************************************************)

\* C1: with at least one path, the exit status is 0 iff every eligible path
\* has an empty finding list, else 1; throughout the loop the flag is the
\* conjunction over the eligible files done so far.
C1_ExitStatus ==
    /\ (pc = "loop") =>
          (all_safe <=> \A k \in 1..(i - 1) : Excluded(argv[k].path) \/ FindingsOf(k) = <<>>)
    /\ (pc = "done" /\ Len(argv) >= 1) =>
          exit_code = (IF \A k \in 1..Len(argv) : Excluded(argv[k].path) \/ FindingsOf(k) = <<>>
                       THEN 0 ELSE 1)

\* an unsafe file followed by a safe one: the run has ended with status 1
C1_Witness ==
    /\ pc = "done" /\ Len(argv) = 2 /\ exit_code = 1
    /\ ~Excluded(argv[1].path) /\ FindingsOf(1) # <<>>
    /\ ~Excluded(argv[2].path) /\ FindingsOf(2) = <<>>

\* C2: a path with "test" in any letter case or with "__init__" is never
\* handed to check_python_file, prints nothing and cannot fail the run; every
\* other path is handed to it.
C2_SkipFilter ==
    Running =>
       /\ reads = EligiblePaths(i - 1)
       /\ \A l \in 1..Len(stdout) : ~Excluded(stdout[l].issue.path)
       /\ (\A k \in 1..(i - 1) : Excluded(argv[k].path)) => (all_safe /\ stdout = <<>>)

\* unsafe content under LaTest.py and under __init__.py: nothing read, status 0
C2_Witness ==
    /\ pc = "done" /\ Len(argv) = 2 /\ exit_code = 0 /\ reads = <<>> /\ stdout = <<>>
    /\ argv[1].path = P_LaTest /\ argv[1].data = FStringFile
    /\ argv[2].path = P_init /\ argv[2].data = FStringFile

\* C3: an eligible file that is not UTF-8 gives is_safe = false and the one
\* encoding finding (no pass runs on it), and main goes on to every later
\* path: at the end every eligible path has been checked.
C3_EncodingError ==
    /\ (Running /\ file.data.decode = "UnicodeDecodeError") =>
          result = [is_safe |-> FALSE, issues |-> <<Issue(file.path, 0, MsgEncoding, "")>>]
    /\ (pc = "done" /\ Len(argv) >= 1) =>
          (i = Len(argv) + 1 /\ reads = EligiblePaths(Len(argv)))

\* an undecodable file first, then another eligible file, both checked
C3_Witness ==
    /\ pc = "done" /\ Len(argv) = 2
    /\ argv[1].data.decode = "UnicodeDecodeError"
    /\ reads = <<argv[1].path, argv[2].path>>
    /\ file = argv[2] /\ result.is_safe

\* C4: content with the parameterized call and no other execute call has no
\* findings, whatever text follows the call.
C4_ParameterizedCallIsClean ==
    (/\ Analysed
     /\ file.data.parse \in {"ok", "SyntaxError"}
     /\ Contains(file.data.content, ParamCallText)
     /\ ExecuteCalls(file.data.content) = 1)
    => (result.is_safe /\ result.issues = <<>>)

\* C5: content with cursor.execute("SELECT * FROM t WHERE id=%s" % x), the
\* one-line file included, gets the finding of textual rule 1.
C5_PercentFormattingFiresRule1 ==
    (/\ Analysed
     /\ file.data.parse \in {"ok", "SyntaxError"}
     /\ Contains(file.data.content, PercentCallText))
    => \E k \in 1..Len(result.issues) : result.issues[k] = Issue(file.path, 0, MsgFormat, "")

\* C6 as stated: whenever the content does not parse, for whatever reason,
\* the result is exactly the textual findings.
C6_AnyParseFailureKeepsTextual ==
    (Analysed /\ file.data.parse # "ok") =>
        result = Returned(TextualIssues(file.path, file.data.content))

\* C6 amended: a SyntaxError leaves exactly the textual findings; any other
\* exception of the parse gives is_safe = false and the one error finding,
\* the textual findings dropped.
C6_ParseFailure ==
    /\ (Analysed /\ file.data.parse = "SyntaxError") =>
          /\ result.issues = TextualIssues(file.path, file.data.content)
          /\ result.is_safe <=> (~pattern_format(file.data.content)
                                 /\ ~pattern_fstring(file.data.content)
                                 /\ ~pattern_concat(file.data.content))
    /\ (Analysed /\ file.data.parse \notin {"ok", "SyntaxError"}) =>
          result = [is_safe |-> FALSE,
                    issues |-> <<Issue(file.path, 0, MsgError, file.data.parse)>>]

\* a file that does not parse and has a textual finding, which stands alone
C6_Witness ==
    /\ Analysed /\ file.data.parse = "SyntaxError"
    /\ result.issues = <<Issue(file.path, 0, MsgFString, "")>>

\* C7: given a manifest path, main prints the violations and exits 1 when
\* there are any, and prints the compliance line and exits 0 when there are
\* none.
C7_ValidatorReports ==
    (pc = "done" /\ module.argc >= 1) =>
        LET errors == validate_manifest(module.manifest) \o validate_odoo_structure(module.dir)
        IN IF errors # <<>>
           THEN exit_code = 1 /\ stdout = <<"Validation failed">> \o errors
           ELSE exit_code = 0 /\ stdout = <<"Module is Odoo compliant">>

\* C8: the output is the finding lists of the unsafe eligible files, whole
\* and in argument order; safe and skipped files add nothing.
C8_Output ==
    /\ Running => stdout = ExpectedOutput(i - 1)
    /\ (pc = "done" /\ Len(argv) >= 1) => stdout = ExpectedOutput(Len(argv))

\* two unsafe files in a row, the first with two findings: three lines, the
\* second file's last
C8_Witness ==
    /\ pc = "done" /\ Len(argv) = 2 /\ Len(stdout) = 3
    /\ Len(FindingsOf(1)) = 2 /\ Len(FindingsOf(2)) = 1
    /\ stdout[3].issue.path = argv[2].path

\* C9: the visitor flags each call exactly once that is a method call named
\* execute with a first positional argument that is a binary operation, an
\* f-string or a .format()/.replace() call, at any depth, and no other call.
C9_StructuralRule ==
    (Analysed /\ file.data.parse = "ok") =>
        /\ \A n \in AllNodes(ParsedTree) :
              Count(checker.flagged, n) = (IF ShouldFlag(n) THEN 1 ELSE 0)
        /\ \A k \in 1..Len(checker.flagged) : checker.flagged[k] \in AllNodes(ParsedTree)
        /\ Len(checker.issues) = Len(checker.flagged)

\* a flagged call inside an argument of a flagged call
C9_Witness ==
    /\ Analysed /\ file.data.parse = "ok"
    /\ \E a, b \in 1..Len(checker.flagged) :
          /\ a # b
          /\ checker.flagged[b] \in UnderAny(args(checker.flagged[a]))

====
